---- MODULE Spec2Model ----
(***************************************************************************)
(* Model of the ccuse profile store (src/config/storage.rs), the commands  *)
(* that write to it (src/cli/commands/*.rs) and the CC-Switch adapter      *)
(* (src/db/ccswitch.rs).                                                   *)
(*                                                                         *)
(* A string is a sequence of one-character strings, so that                *)
(* str::replace(' ', "_") is computed.  An Option is a sequence of length  *)
(* 0 (None) or 1 (Some).  A JSON object on disk is a record that has       *)
(* exactly the fields the text holds; text that is no JSON is NotJson.     *)
(***************************************************************************)
EXTENDS Integers, Sequences, FiniteSets, TLC

\* The number of operations of one run (the logical clock stops there).
MaxClock == 3
\* The number of rows the providers table of the CC-Switch database holds.
MaxRows == 2

None == << >>
Some(x) == << x >>

--------------------------------------------------------------------------
\* Names

W == << "w" >>
A_B == << "a", " ", "b" >>
AuB == << "a", "_", "b" >>

\* The names the user types and the rows carry.
NameSet == { W, A_B, AuB }

\* A name with a path separator, and the paths R/<name> of the model:
\* Path::join(name) for every name an operation is given.
Nested == << "a", "/", "b" >>
\* The name that is the first component of Nested: R/a is the parent
\* directory of R/a/b.
A == << "a" >>
PathSet == NameSet \cup { A, Nested }

\* str::replace(' ', "_")
replace(s) == [ i \in 1..Len(s) |-> IF s[i] = " " THEN "_" ELSE s[i] ]

\* Vec::contains
contains(seq, x) == \E i \in 1..Len(seq) : seq[i] = x

\* Iterator::position over hits[i], the predicate applied to element i: the
\* first index holding a match, 0 for None.
position(hits) ==
    IF \E i \in 1..Len(hits) : hits[i]
    THEN CHOOSE i \in 1..Len(hits) : hits[i] /\ \A j \in 1..(i-1) : ~hits[j]
    ELSE 0

--------------------------------------------------------------------------
\* Profile (src/config/profile.rs)

Manual == "manual"
CcSwitch == "cc-switch"

\* Permissions::default()
PermissionsDefault == [ enabled |-> None, mcp |-> None, command |-> None ]
PermissionsOn == [ enabled |-> Some(TRUE), mcp |-> None, command |-> None ]

\* HashMap<String, String> as a function from its keys.
EnvEmpty == [ k \in {} |-> "" ]
EnvKey == [ k \in {"ANTHROPIC_AUTH_TOKEN"} |-> "sk-1" ]
EnvUrl == [ k \in {"ANTHROPIC_AUTH_TOKEN", "ANTHROPIC_BASE_URL"} |->
              IF k = "ANTHROPIC_AUTH_TOKEN" THEN "sk-2" ELSE "https://api" ]

\* The fields of struct Profile; those serde requires of a JSON object.
ProfileFields == { "name", "display_name", "env", "permissions", "enabled_plugins",
                   "always_thinking_enabled", "api_timeout_ms", "category", "source",
                   "created_at", "updated_at" }
RequiredFields == { "name", "env", "permissions", "created_at", "updated_at" }

Profile(n, dn, e, src, t) ==
    [ name |-> n, display_name |-> dn, env |-> e, permissions |-> PermissionsDefault,
      enabled_plugins |-> None, always_thinking_enabled |-> None,
      api_timeout_ms |-> None, category |-> None, source |-> src,
      created_at |-> t, updated_at |-> t ]

--------------------------------------------------------------------------
\* JSON text

NotJson == [ text |-> "}{" ]

\* serde_json::to_string_pretty(&Profile): every field is written, None as null.
to_string_pretty(p) == [ f \in ProfileFields |-> p[f] ]

\* serde_json::from_str::<Profile>: Err (None) unless the text is a JSON object
\* holding every field that is neither an Option nor #[serde(default)]; an
\* absent Option field is None.
from_str(doc) ==
    IF RequiredFields \subseteq DOMAIN doc
    THEN Some([ f \in ProfileFields |-> IF f \in DOMAIN doc THEN doc[f] ELSE None ])
    ELSE None

--------------------------------------------------------------------------
\* State

VARIABLES
    ccuse,   \* Option: the text of R/ccuse.json, a sequence of names
    fs,      \* per name: whether R/<name>/ exists, and Option: R/<name>/settings.json
    now,     \* logical clock, one tick per operation
    last,    \* the operation that ran last: its name arguments, its result, and
             \* whether it repeats the operation before it, which succeeded
    db,      \* Option: the claude rows of ~/.cc-switch/cc-switch.db, where a
             \* specification keeps the table (SpecSync); Spec has cc-switch
             \* rewrite the table before every update and does not keep it
    proc,    \* per process: the add invocation it runs and how far it has got
             \* (SpecRace); the other specifications run one operation at a time
    child    \* Option: the process the last use spawned, with its program,
             \* arguments, environment and exit status (SpecLaunch)

vars == << ccuse, fs, now, last, db, proc, child >>

NoDir == [ dir |-> FALSE, file |-> None ]

\* Path::starts_with on R/<path> and R/<base>: base is path or an ancestor
\* of it, component by component.
starts_with(path, base) ==
    \/ path = base
    \/ /\ Len(path) > Len(base)
       /\ path[Len(base) + 1] = "/"
       /\ SubSeq(path, 1, Len(base)) = base

\* fs::create_dir_all(R/<name>): the directory and its missing ancestors.
create_dir_all(f, name) ==
    IF \A i \in 1..Len(name) : name[i] # "/"
    THEN [ f EXCEPT ![name].dir = TRUE ]
    ELSE [ q \in DOMAIN f |-> IF starts_with(name, q) THEN [ f[q] EXCEPT !.dir = TRUE ]
                              ELSE f[q] ]

\* fs::remove_dir_all(R/<name>): the directory and all that is below it.
remove_dir_all(f, name) ==
    [ q \in DOMAIN f |-> IF starts_with(q, name) THEN NoDir ELSE f[q] ]

\* fs::write(R/<name>/settings.json, text), the directory being there.
write(f, name, text) == [ f EXCEPT ![name].file = Some(text) ]

\* Whether every ancestor directory of R/<name> below R exists.
parent_exists(f, name) ==
    \A q \in DOMAIN f : (starts_with(name, q) /\ q # name) => f[q].dir

\* fs::rename(R/<old>, R/<new>) where R/<new> does not exist and is not below
\* R/<old>: the tree below old is below new afterwards.  Of the paths moved
\* only those in the domain of f are kept track of.
rename(f, old, new) ==
    [ q \in DOMAIN f |->
        IF starts_with(q, new)
        THEN LET from == old \o SubSeq(q, Len(new) + 1, Len(q)) IN
             IF from \in DOMAIN f THEN f[from] ELSE NoDir
        ELSE IF starts_with(q, old) THEN NoDir
        ELSE f[q] ]

NoOp == [ op |-> "none", name |-> << >>, name2 |-> << >>, result |-> "ok",
          repeat |-> FALSE ]

\* The processes that run add side by side, and a process that runs nothing.
Procs == { 1, 2 }
Idle == [ kind |-> "none", pc |-> "done", name |-> << >>, input |-> << >>,
          names |-> << >>, result |-> "none" ]

Init ==
    /\ ccuse = None
    /\ fs = [ n \in PathSet |-> NoDir ]
    /\ now = 0
    /\ last = NoOp
    /\ db = None
    /\ proc = [ i \in Procs |-> Idle ]
    /\ child = None

--------------------------------------------------------------------------
\* Storage (src/config/storage.rs)

load_profile_names(cc) == IF cc = None THEN << >> ELSE cc[1]

save_profile_names(names) == Some(names)

\* Result<Profile> as an Option: every Err is None.
load_profile_from_file(f, name) ==
    IF f[name].file = None THEN None ELSE from_str(f[name].file[1])

\* save_profile_to_file as it would be if a write refreshed updated_at.
save_profile_to_file_touch(f, p) ==
    write(create_dir_all(f, p.name), p.name,
          to_string_pretty([ p EXCEPT !.updated_at = now + 1 ]))

\* ensure_profile_settings_dir, then fs::write
save_profile_to_file(f, p) ==
    write(create_dir_all(f, p.name), p.name, to_string_pretty(p))

\* load_profiles as it would be if a file that does not load ended the loop.
load_profiles_strict(cc, f) ==
    LET names == load_profile_names(cc)
        bad == position([ i \in 1..Len(names) |->
                            load_profile_from_file(f, names[i]) = None ])
        ok == IF bad = 0 THEN names ELSE SubSeq(names, 1, bad - 1)
    IN  [ i \in 1..Len(ok) |-> load_profile_from_file(f, ok[i])[1] ]

\* Storage::load_profiles: a name whose file does not load is skipped.
load_profiles(cc, f) ==
    LET names == load_profile_names(cc)
        ok == SelectSeq(names, LAMBDA n : load_profile_from_file(f, n) # None)
    IN  [ i \in 1..Len(ok) |-> load_profile_from_file(f, ok[i])[1] ]

\* get_profile as it would be if it looked in the directory, not in the index.
get_profile_by_directory(cc, f, name) ==
    load_profile_from_file(f, name)

\* Storage::get_profile: Err of load_profile_from_file is Ok(None).
get_profile(cc, f, name) ==
    IF ~contains(load_profile_names(cc), name) THEN None
    ELSE load_profile_from_file(f, name)

\* The profiles add_profile is called with.
ProfileInputs ==
    { Profile(W, None, EnvKey, Some(Manual), 0),
      Profile(W, Some(W), EnvUrl, None, 0),
      Profile(A_B, None, EnvKey, Some(Manual), 0),
      Profile(AuB, None, EnvUrl, Some(CcSwitch), 0) }

\* The operation op returns result: the clock ticks.
Finish(op, name, name2, result) ==
    /\ now < MaxClock
    /\ now' = now + 1
    /\ last' = [ op |-> op, name |-> name, name2 |-> name2, result |-> result,
                 repeat |-> /\ last.op = op /\ last.name = name /\ last.name2 = name2
                            /\ last.result = "ok" ]
    /\ UNCHANGED << db, proc, child >>

\* Storage::add_profile
add_profile(profile) ==
    LET names == load_profile_names(ccuse) IN
    /\ IF contains(names, profile.name)
       THEN /\ UNCHANGED << ccuse, fs >>
            /\ Finish("add_profile", profile.name, << >>, "AlreadyExists")
       ELSE /\ fs' = save_profile_to_file(fs, profile)
            /\ ccuse' = save_profile_names(Append(names, profile.name))
            /\ Finish("add_profile", profile.name, << >>, "ok")

\* update_profile as it would be if it wrote the file without the index check.
update_profile_upsert(profile) ==
    /\ fs' = save_profile_to_file(fs, profile)
    /\ UNCHANGED ccuse
    /\ Finish("update_profile", profile.name, << >>, "ok")

\* Storage::update_profile
update_profile(profile) ==
    LET names == load_profile_names(ccuse) IN
    /\ IF ~contains(names, profile.name)
       THEN /\ UNCHANGED << ccuse, fs >>
            /\ Finish("update_profile", profile.name, << >>, "NotFound")
       ELSE /\ fs' = save_profile_to_file(fs, profile)
            /\ UNCHANGED ccuse
            /\ Finish("update_profile", profile.name, << >>, "ok")

\* remove_profile as it would be without remove_dir_all.
storage_remove_profile_keep_dir(cc, f, name) ==
    LET names == load_profile_names(cc)
        kept == SelectSeq(names, LAMBDA n : n # name)
    IN  IF Len(kept) = Len(names)
        THEN [ result |-> "NotFound", ccuse |-> cc, fs |-> f ]
        ELSE [ result |-> "ok", ccuse |-> save_profile_names(kept), fs |-> f ]

\* Storage::remove_profile on the state (cc, f): the result and the state left.
storage_remove_profile(cc, f, name) ==
    LET names == load_profile_names(cc)
        kept == SelectSeq(names, LAMBDA n : n # name)
    IN  IF Len(kept) = Len(names)
        THEN [ result |-> "NotFound", ccuse |-> cc, fs |-> f ]
        ELSE [ result |-> "ok",
               ccuse |-> save_profile_names(kept),
               fs |-> remove_dir_all(f, name) ]

\* remove_all_profiles as it would be without remove_file on ccuse.json.
storage_remove_all_profiles_keep_index(cc, f) ==
    LET names == load_profile_names(cc) IN
    [ ccuse |-> cc,
      fs |-> [ n \in DOMAIN f |->
                 IF \E i \in 1..Len(names) : starts_with(n, names[i]) THEN NoDir
                 ELSE f[n] ] ]

\* Storage::remove_all_profiles on the state (cc, f): the state left.
storage_remove_all_profiles(cc, f) ==
    LET names == load_profile_names(cc) IN
    [ ccuse |-> None,
      fs |-> [ n \in DOMAIN f |->
                 IF \E i \in 1..Len(names) : starts_with(n, names[i]) THEN NoDir
                 ELSE f[n] ] ]

\* Storage::save_profiles: the files after saving profiles[i..] in order.
RECURSIVE save_files(_, _, _)
save_files(f, profiles, i) ==
    IF i > Len(profiles) THEN f
    ELSE save_files(save_profile_to_file(f, profiles[i]), profiles, i + 1)

storage_save_profiles(f, profiles) ==
    [ ccuse |-> save_profile_names([ i \in 1..Len(profiles) |-> profiles[i].name ]),
      fs |-> save_files(f, profiles, 1) ]

--------------------------------------------------------------------------
\* ccuse remove (src/cli/commands/remove_cmd.rs)

\* Storage::remove_profile called directly.
remove_profile(name) ==
    LET r == storage_remove_profile(ccuse, fs, name) IN
    /\ ccuse' = r.ccuse
    /\ fs' = r.fs
    /\ Finish("remove_profile", name, << >>, r.result)

\* remove_cmd::remove_profile; confirm is the user's answer to the prompt.
remove_cmd(name, confirm) ==
    IF get_profile(ccuse, fs, name) = None
    THEN /\ UNCHANGED << ccuse, fs >>
         /\ Finish("remove_cmd", name, << >>, "NotFound")
    ELSE IF ~confirm
    THEN /\ UNCHANGED << ccuse, fs >>
         /\ Finish("remove_cmd", name, << >>, "cancelled")
    ELSE LET r == storage_remove_profile(ccuse, fs, name) IN
         /\ ccuse' = r.ccuse
         /\ fs' = r.fs
         /\ Finish("remove_cmd", name, << >>, r.result)

\* remove_cmd::remove_all_profiles
remove_all_profiles(confirm) ==
    IF ~confirm
    THEN /\ UNCHANGED << ccuse, fs >>
         /\ Finish("remove_all", << >>, << >>, "cancelled")
    ELSE LET r == storage_remove_all_profiles(ccuse, fs) IN
         /\ ccuse' = r.ccuse
         /\ fs' = r.fs
         /\ Finish("remove_all", << >>, << >>, "ok")

--------------------------------------------------------------------------
\* ccuse rename (src/cli/commands/rename_cmd.rs)

\* A rename that drops the old name from the index and appends the new one.
rename_profile_append(old_name, new_name) ==
    LET got == get_profile(ccuse, fs, old_name) IN
    IF got = None
    THEN /\ UNCHANGED << ccuse, fs >>
         /\ Finish("rename", old_name, new_name, "NotFound")
    ELSE IF get_profile(ccuse, fs, new_name) # None
    THEN /\ UNCHANGED << ccuse, fs >>
         /\ Finish("rename", old_name, new_name, "AlreadyExists")
    ELSE LET cleared == IF fs[new_name].dir THEN remove_dir_all(fs, new_name) ELSE fs
             moved == IF cleared[old_name].dir THEN rename(cleared, old_name, new_name)
                      ELSE cleared
             profile == [ got[1] EXCEPT !.name = new_name,
                            !.display_name = IF @ # None THEN Some(new_name) ELSE @ ]
             names == load_profile_names(ccuse)
         IN  IF /\ cleared[old_name].dir
                /\ \/ starts_with(new_name, old_name)
                   \/ ~parent_exists(cleared, new_name)
             THEN /\ fs' = cleared
                  /\ UNCHANGED ccuse
                  /\ Finish("rename", old_name, new_name, "Io")
             ELSE IF ~moved[new_name].dir
             THEN /\ fs' = moved
                  /\ UNCHANGED ccuse
                  /\ Finish("rename", old_name, new_name, "Io")
             ELSE /\ fs' = write(moved, new_name, to_string_pretty(profile))
                  /\ ccuse' = Some(Append(SelectSeq(names, LAMBDA m : m # old_name),
                                          new_name))
                  /\ Finish("rename", old_name, new_name, "ok")

rename_profile(old_name, new_name) ==
    LET got == get_profile(ccuse, fs, old_name) IN
    IF got = None
    THEN /\ UNCHANGED << ccuse, fs >>
         /\ Finish("rename", old_name, new_name, "NotFound")
    ELSE IF get_profile(ccuse, fs, new_name) # None
    THEN /\ UNCHANGED << ccuse, fs >>
         /\ Finish("rename", old_name, new_name, "AlreadyExists")
    ELSE LET \* if new_dir.exists() { remove_dir_all(new_dir) }
             cleared == IF fs[new_name].dir THEN remove_dir_all(fs, new_name) ELSE fs
             \* if old_dir.exists() { rename(old_dir, new_dir) }
             moved == IF cleared[old_name].dir THEN rename(cleared, old_name, new_name)
                      ELSE cleared
             profile == [ got[1] EXCEPT
                            !.name = new_name,
                            !.display_name = IF @ # None THEN Some(new_name) ELSE @ ]
             names == load_profile_names(ccuse)
             idx == position([ i \in 1..Len(names) |-> names[i] = old_name ])
         IN  \* fs::rename returns an error when new_dir is below old_dir or
             \* the parent of new_dir does not exist
             IF /\ cleared[old_name].dir
                /\ \/ starts_with(new_name, old_name)
                   \/ ~parent_exists(cleared, new_name)
             THEN /\ fs' = cleared
                  /\ UNCHANGED ccuse
                  /\ Finish("rename", old_name, new_name, "Io")
             \* fs::write returns an error when new_dir does not exist
             ELSE IF ~moved[new_name].dir
             THEN /\ fs' = moved
                  /\ UNCHANGED ccuse
                  /\ Finish("rename", old_name, new_name, "Io")
             ELSE /\ fs' = write(moved, new_name, to_string_pretty(profile))
                  /\ ccuse' = Some(IF idx # 0 THEN [ names EXCEPT ![idx] = new_name ]
                                   ELSE names)
                  /\ Finish("rename", old_name, new_name, "ok")

--------------------------------------------------------------------------
\* ccuse add (src/cli/commands/add_cmd.rs)

\* The template the editor is opened on.
TemplateEnv ==
    [ k \in { "ANTHROPIC_AUTH_TOKEN", "ANTHROPIC_BASE_URL", "ANTHROPIC_MODEL",
              "ANTHROPIC_DEFAULT_HAIKU_MODEL", "ANTHROPIC_DEFAULT_SONNET_MODEL",
              "ANTHROPIC_DEFAULT_OPUS_MODEL" } |->
        IF k = "ANTHROPIC_AUTH_TOKEN" THEN "sk-apikey"
        ELSE IF k = "ANTHROPIC_BASE_URL" THEN "https://yourapi" ELSE "" ]
template == [ env |-> TemplateEnv ]

EmptyText == [ text |-> "" ]

\* serde_json::from_str::<Value>
is_json(content) == "text" \notin DOMAIN content

\* Value::get
get(json, key) == IF key \in DOMAIN json THEN Some(json[key]) ELSE None

\* Option::unwrap_or
unwrap_or(opt, default) == IF opt = None THEN default ELSE opt[1]

\* merged_json: the user's value of a field where the document has it, else
\* the default; then serde_json::from_value::<Profile>.
merged_json(name, user_json, t) ==
    [ name |-> name,
      display_name |-> unwrap_or(get(user_json, "display_name"), None),
      env |-> unwrap_or(get(user_json, "env"), EnvEmpty),
      permissions |-> unwrap_or(get(user_json, "permissions"), PermissionsDefault),
      enabled_plugins |-> unwrap_or(get(user_json, "enabled_plugins"), None),
      always_thinking_enabled |-> unwrap_or(get(user_json, "always_thinking_enabled"), None),
      api_timeout_ms |-> unwrap_or(get(user_json, "api_timeout_ms"), None),
      category |-> unwrap_or(get(user_json, "category"), None),
      source |-> unwrap_or(get(user_json, "source"), Some(Manual)),
      created_at |-> unwrap_or(get(user_json, "created_at"), t),
      updated_at |-> t ]

\* What the user leaves in settings.json when the editor closes.
UserDocs ==
    { EmptyText, NotJson, template, [ env |-> EnvKey ], [ env |-> EnvEmpty ],
      to_string_pretty(Profile(W, None, EnvUrl, Some(Manual), 0)),
      to_string_pretty(Profile(AuB, None, EnvUrl, Some(Manual), 0)) }

\* The index add_cmd writes: the names of the profiles that load, then name.
add_cmd_names(cc, f, name) ==
    LET loaded == load_profiles(cc, f) IN
    Append([ i \in 1..Len(loaded) |-> loaded[i].name ], name)

\* add_cmd::add_profile; name is the answer to the prompt, editor_ok the
\* editor's exit status, content the text of settings.json it leaves.
add_cmd(name, editor_ok, content) ==
    LET \* ensure_profile_settings_dir, write the template, run the editor
        edited == write(create_dir_all(fs, name), name, content)
        \* remove_file, remove_dir_all
        cleaned == remove_dir_all(fs, name)
    IN
    IF get_profile(ccuse, fs, name) # None
    THEN /\ UNCHANGED << ccuse, fs >>
         /\ Finish("add_cmd", name, << >>, "AlreadyExists")
    ELSE IF ~editor_ok
    THEN /\ fs' = cleaned
         /\ UNCHANGED ccuse
         /\ Finish("add_cmd", name, << >>, "ConfigError")
    ELSE IF content = EmptyText \/ content = template
    THEN /\ fs' = cleaned
         /\ UNCHANGED ccuse
         /\ Finish("add_cmd", name, << >>, "cancelled")
    ELSE IF ~is_json(content)
    THEN /\ fs' = cleaned
         /\ UNCHANGED ccuse
         /\ Finish("add_cmd", name, << >>, "ConfigError")
    ELSE IF DOMAIN merged_json(name, content, now).env = {}
    THEN /\ fs' = cleaned
         /\ UNCHANGED ccuse
         /\ Finish("add_cmd", name, << >>, "ConfigError")
    ELSE /\ fs' = edited
         /\ ccuse' = Some(add_cmd_names(ccuse, edited, name))
         /\ Finish("add_cmd", name, << >>, "ok")

--------------------------------------------------------------------------
\* CC-Switch database (src/db/ccswitch.rs)

\* settings_config of a row.
ConfigEnv == [ env |-> EnvKey ]
ConfigUrl == [ env |-> EnvUrl, apiTimeoutMs |-> 600 ]
ConfigNoEnv == [ permissions |-> PermissionsOn ]

\* The rows of providers WHERE app_type = 'claude'.
RowSet ==
    { [ name |-> A_B, settings_config |-> ConfigEnv, created_at |-> 1 ],
      [ name |-> AuB, settings_config |-> ConfigUrl, created_at |-> 2 ],
      [ name |-> W, settings_config |-> ConfigNoEnv, created_at |-> 1 ],
      [ name |-> W, settings_config |-> NotJson, created_at |-> 1 ] }

\* CcSwitchDb::parse_provider_config: Err is None.
parse_provider_config(row) ==
    LET config == row.settings_config IN
    IF ~is_json(config) THEN None
    ELSE Some([ name |-> replace(row.name),
                display_name |-> Some(row.name),
                env |-> unwrap_or(get(config, "env"), EnvEmpty),
                permissions |-> unwrap_or(get(config, "permissions"), PermissionsDefault),
                enabled_plugins |-> get(config, "enabledPlugins"),
                always_thinking_enabled |-> get(config, "alwaysThinkingEnabled"),
                api_timeout_ms |-> get(config, "apiTimeoutMs"),
                category |-> None,
                source |-> Some(CcSwitch),
                created_at |-> row.created_at,
                updated_at |-> row.created_at ])

\* get_profiles as it would be if a row that does not parse ended the fetch
\* with an error: nothing is fetched.
get_profiles_strict(rows) ==
    IF \E i \in 1..Len(rows) : parse_provider_config(rows[i]) = None THEN << >>
    ELSE [ i \in 1..Len(rows) |-> parse_provider_config(rows[i])[1] ]

\* CcSwitchDb::get_profiles: filter_map over the rows.
get_profiles(rows) ==
    LET ok == SelectSeq(rows, LAMBDA r : parse_provider_config(r) # None)
    IN  [ i \in 1..Len(ok) |-> parse_provider_config(ok[i])[1] ]

--------------------------------------------------------------------------
\* ccuse update (src/cli/commands/update_cmd.rs)

\* The loop over new_profiles, from new_profiles[i] on.
RECURSIVE merge(_, _, _)
merge(updated_profiles, new_profiles, i) ==
    IF i > Len(new_profiles) THEN updated_profiles
    ELSE LET new_profile == new_profiles[i]
             name_with_underscores == replace(new_profile.name)
             idx == position([ k \in 1..Len(updated_profiles) |->
                                 \/ updated_profiles[k].name = new_profile.name
                                 \/ updated_profiles[k].name = name_with_underscores ])
             updated_profile == [ new_profile EXCEPT
                                    !.name = name_with_underscores,
                                    !.display_name = Some(name_with_underscores) ]
         IN  merge(IF idx # 0 THEN [ updated_profiles EXCEPT ![idx] = updated_profile ]
                   ELSE Append(updated_profiles, updated_profile),
                   new_profiles, i + 1)

\* The manual profiles among the loaded ones, in their order.
manual_profiles(existing_profiles) ==
    SelectSeq(existing_profiles, LAMBDA p : p.source = Some(Manual))

\* The tables ~/.cc-switch/cc-switch.db can hold, and what get_profiles
\* returns for them.
RowLists == UNION { [ 1..k -> RowSet ] : k \in 0..MaxRows }
Fetched == { get_profiles(rows) : rows \in RowLists }

\* update_cmd::update_profiles up to save_profiles: the store it leaves.
merged_store(cc, f, new_profiles) ==
    storage_save_profiles(f, merge(manual_profiles(load_profiles(cc, f)), new_profiles, 1))

\* update_profiles as it would be without the two early returns.
update_profiles_unguarded(db_exists, new_profiles) ==
    /\ Finish("update", << >>, << >>, "ok")
    /\ \E r \in { merged_store(ccuse, fs, new_profiles) } :
         /\ ccuse' = r.ccuse
         /\ fs' = r.fs

\* update_cmd::update_profiles; db_exists is CcSwitchDb::exists(), new_profiles
\* what get_profiles returns.
update_profiles(db_exists, new_profiles) ==
    IF ~db_exists \/ new_profiles = << >>
    THEN /\ UNCHANGED << ccuse, fs >>
         /\ Finish("update", << >>, << >>, "nothing")
    ELSE /\ Finish("update", << >>, << >>, "ok")
         /\ \E r \in { merged_store(ccuse, fs, new_profiles) } :
              /\ ccuse' = r.ccuse
              /\ fs' = r.fs

--------------------------------------------------------------------------

Next ==
    \/ \E p \in ProfileInputs : add_profile(p)
    \/ \E p \in ProfileInputs : update_profile(p)
    \/ \E n \in NameSet : remove_profile(n)
    \/ \E n \in NameSet, c \in BOOLEAN : remove_cmd(n, c)
    \/ \E c \in BOOLEAN : remove_all_profiles(c)
    \/ \E o \in NameSet, n \in NameSet : rename_profile(o, n)
    \/ \E n \in NameSet, d \in UserDocs : add_cmd(n, TRUE, d)
    \/ \E n \in NameSet : add_cmd(n, FALSE, template)
    \/ \E new_profiles \in Fetched : update_profiles(TRUE, new_profiles)
    \/ update_profiles(FALSE, << >>)

Spec == Init /\ [][Next]_vars

--------------------------------------------------------------------------
\* ccuse add and ccuse update against a providers table that stays as it is

\* A row whose name has a path separator.
NestedRow == [ name |-> Nested, settings_config |-> ConfigEnv, created_at |-> 2 ]

\* The tables the database can hold.
Tables == UNION { [ 1..k -> RowSet \cup { NestedRow } ] : k \in 0..MaxRows }

\* The profiles and documents given to add.
SyncProfiles ==
    { Profile(W, None, EnvKey, Some(Manual), 0),
      Profile(Nested, None, EnvKey, Some(Manual), 0) }
SyncDocs == { [ env |-> EnvKey ] }

InitSync ==
    /\ ccuse = None
    /\ fs = [ n \in PathSet |-> NoDir ]
    /\ now = 0
    /\ last = NoOp
    /\ db \in { None } \cup { Some(t) : t \in Tables }
    /\ proc = [ i \in Procs |-> Idle ]
    /\ child = None

\* update_cmd::update_profiles reading the table: get_profiles is called
\* only when the database file exists.
update_cmd ==
    IF db = None THEN update_profiles(FALSE, << >>)
    ELSE update_profiles(TRUE, get_profiles(db[1]))

NextSync ==
    \/ \E p \in SyncProfiles : add_profile(p)
    \/ \E d \in SyncDocs : add_cmd(Nested, TRUE, d)
    \/ update_cmd

SpecSync == InitSync /\ [][NextSync]_vars

--------------------------------------------------------------------------
\* The store with a profile whose directory is below the directory of
\* another: the names "a" and "a/b" are joined to R like any other.

PathProfiles ==
    { Profile(W, None, EnvKey, Some(Manual), 0),
      Profile(A, None, EnvKey, Some(Manual), 0),
      Profile(Nested, None, EnvUrl, Some(Manual), 0) }
PathNames == { W, A, Nested }

NextPaths ==
    \/ \E p \in PathProfiles : add_profile(p)
    \/ \E n \in PathNames : remove_profile(n)
    \/ \E n \in PathNames : remove_cmd(n, TRUE)
    \/ \E o, n \in PathNames : rename_profile(o, n)

SpecPaths == Init /\ [][NextPaths]_vars

--------------------------------------------------------------------------
\* ccuse use (src/cli/commands/use_cmd.rs, src/claude/launcher.rs)

\* HashMap::remove and the inserts of one map over another.
remove(env, key) == [ k \in DOMAIN env \ { key } |-> env[k] ]
insert_all(env, over) ==
    [ k \in DOMAIN env \cup DOMAIN over |-> IF k \in DOMAIN over THEN over[k] ELSE env[k] ]

\* Launcher::find_claude_executable: on_path are the programs `which` finds,
\* claude_code_path is Option: $CLAUDE_CODE_PATH where it names a file.
candidates == << "claude", "claude-code", "Claude Code" >>
find_claude_executable(on_path, claude_code_path) ==
    LET found == position([ i \in 1..Len(candidates) |-> candidates[i] \in on_path ]) IN
    IF found # 0 THEN Some(candidates[found]) ELSE claude_code_path

\* The environments ccuse is started in, the programs on PATH, the values
\* of $CLAUDE_CODE_PATH, the arguments after the name, the exit statuses.
InheritedEnvs ==
    { [ k \in { "HOME" } |-> "/root" ],
      [ k \in { "ANTHROPIC_AUTH_TOKEN", "CLAUDECODE" } |->
          IF k = "CLAUDECODE" THEN "1" ELSE "sk-0" ] }
OnPath == { {}, { "claude-code" } }
ClaudeCodePaths == { None, Some("/opt/claude") }
ArgLists == { << >>, << "-p" >> }
ExitCodes == { 0, 1 }

\* use_profile, with Launcher::launch: the result, and the child spawned.
\* spawn_ok is whether Command::spawn succeeds, code the child's exit code.
launch(profile, bypass, args, on_path, claude_code_path, inherited, spawn_ok, code) ==
    LET claude_cmd == find_claude_executable(on_path, claude_code_path)
        \* profile_settings_path(&profile.name)
        settings_path == profile.name
        env_vars == insert_all(remove(inherited, "CLAUDECODE"), profile.env)
        claude_args == << "--settings", settings_path >>
                         \o (IF bypass THEN << "--dangerously-skip-permissions" >>
                             ELSE << >>)
                         \o args
    IN  IF claude_cmd = None
        THEN [ result |-> "ClaudeNotFound", child |-> None ]
        ELSE IF profile.name \notin DOMAIN fs \/ fs[profile.name].file = None
        THEN [ result |-> "ConfigError", child |-> None ]
        ELSE IF ~spawn_ok
        THEN [ result |-> "LaunchError", child |-> None ]
        ELSE \* Command::envs adds to the environment the child inherits;
             \* the ExitStatus that wait returns is dropped
             [ result |-> "ok",
               child |-> Some([ program |-> claude_cmd[1], args |-> claude_args,
                                env |-> insert_all(inherited, env_vars),
                                code |-> code ]) ]

use_profile(name, bypass, args, on_path, claude_code_path, inherited, spawn_ok, code) ==
    LET got == get_profile(ccuse, fs, name)
        r == IF got = None THEN [ result |-> "NotFound", child |-> None ]
             ELSE launch(got[1], bypass, args, on_path, claude_code_path,
                         inherited, spawn_ok, code)
    IN  /\ now < MaxClock
        /\ now' = now + 1
        /\ last' = [ op |-> "use", name |-> name, name2 |-> << >>,
                     result |-> r.result, repeat |-> FALSE ]
        /\ child' = r.child
        /\ UNCHANGED << ccuse, fs, db, proc >>

LaunchProfiles ==
    { Profile(W, None, EnvKey, Some(Manual), 0),
      Profile(AuB, None, EnvUrl, Some(CcSwitch), 0) }

NextLaunch ==
    \/ \E p \in LaunchProfiles : add_profile(p)
    \/ \E n \in { W, AuB } : remove_profile(n)
    \/ \E n \in { W, AuB }, bypass, spawn_ok \in BOOLEAN, args \in ArgLists,
          on_path \in OnPath, path \in ClaudeCodePaths,
          inherited \in InheritedEnvs, code \in ExitCodes :
         use_profile(n, bypass, args, on_path, path, inherited, spawn_ok, code)

SpecLaunch == Init /\ [][NextLaunch]_vars

--------------------------------------------------------------------------
\* The single-profile operations when one filesystem call returns an error:
\* the calls before it have taken effect, the call itself and those after it
\* have not, and the error is returned by `?`.

\* Storage::add_profile; failed is the call that fails.
AddCalls == { "create_dir_all", "write settings.json", "write ccuse.json" }
add_profile_io(profile, failed) ==
    /\ ~contains(load_profile_names(ccuse), profile.name)
    /\ UNCHANGED ccuse
    /\ fs' = IF failed = "create_dir_all" THEN fs
             ELSE IF failed = "write settings.json" THEN create_dir_all(fs, profile.name)
             ELSE save_profile_to_file(fs, profile)
    /\ Finish("add_profile", profile.name, << >>, "Io")

\* Storage::update_profile
UpdateCalls == { "create_dir_all", "write settings.json" }
update_profile_io(profile, failed) ==
    /\ contains(load_profile_names(ccuse), profile.name)
    /\ UNCHANGED ccuse
    /\ fs' = IF failed = "create_dir_all" THEN fs
             ELSE create_dir_all(fs, profile.name)
    /\ Finish("update_profile", profile.name, << >>, "Io")

\* Storage::remove_profile
RemoveCalls == { "remove_dir_all", "write ccuse.json" }
remove_profile_io(name, failed) ==
    /\ contains(load_profile_names(ccuse), name)
    /\ UNCHANGED ccuse
    /\ fs' = IF failed = "remove_dir_all" THEN fs
             ELSE remove_dir_all(fs, name)
    /\ Finish("remove_profile", name, << >>, "Io")

\* rename_cmd::rename_profile
RenameCalls == { "remove_dir_all", "rename", "write settings.json", "write ccuse.json" }
rename_profile_io(old_name, new_name, failed) ==
    LET got == get_profile(ccuse, fs, old_name)
        cleared == remove_dir_all(fs, new_name)
        moved == rename(cleared, old_name, new_name)
        profile == [ got[1] EXCEPT !.name = new_name,
                       !.display_name = IF @ # None THEN Some(new_name) ELSE @ ]
    IN  /\ got # None
        /\ get_profile(ccuse, fs, new_name) = None
        /\ failed = "remove_dir_all" => fs[new_name].dir
        /\ UNCHANGED ccuse
        /\ fs' = IF failed = "remove_dir_all" THEN fs
                 ELSE IF failed = "rename" THEN cleared
                 ELSE IF failed = "write settings.json" THEN moved
                 ELSE write(moved, new_name, to_string_pretty(profile))
        /\ Finish("rename", old_name, new_name, "Io")

NextIo ==
    \/ \E p \in ProfileInputs : add_profile(p)
    \/ \E p \in ProfileInputs : update_profile(p)
    \/ \E n \in NameSet : remove_profile(n)
    \/ \E o \in NameSet, n \in NameSet : rename_profile(o, n)
    \/ \E p \in ProfileInputs, c \in AddCalls : add_profile_io(p, c)
    \/ \E p \in ProfileInputs, c \in UpdateCalls : update_profile_io(p, c)
    \/ \E n \in NameSet, c \in RemoveCalls : remove_profile_io(n, c)
    \/ \E o \in NameSet, n \in NameSet, c \in RenameCalls : rename_profile_io(o, n, c)

SpecIo == Init /\ [][NextIo]_vars

--------------------------------------------------------------------------
\* Two add invocations on one configuration directory, one step per
\* filesystem call (a test of existence with the call it guards, and the
\* reads of one load, are one step).

\* What the two invocations are called with.
RaceProfiles ==
    { Profile(W, None, EnvKey, Some(Manual), 0),
      Profile(W, Some(W), EnvUrl, None, 0),
      Profile(A_B, None, EnvKey, Some(Manual), 0) }
RaceDocs ==
    { [ env |-> EnvKey ],
      to_string_pretty(Profile(W, None, EnvUrl, Some(Manual), 0)) }
Starts ==
    { [ kind |-> "storage", pc |-> "check", name |-> p.name, input |-> p,
        names |-> << >>, result |-> "none" ] : p \in RaceProfiles }
    \cup
    { [ kind |-> "cmd", pc |-> "check", name |-> n, input |-> d,
        names |-> << >>, result |-> "none" ] : n \in { W, AuB }, d \in RaceDocs }

InitRace ==
    /\ ccuse = None
    /\ fs = [ n \in PathSet |-> NoDir ]
    /\ now = 0
    /\ last = NoOp
    /\ db = None
    /\ proc \in [ Procs -> Starts ]
    /\ child = None

\* Process i goes on at pc, or returns result.
goto(i, pc) ==
    /\ proc' = [ proc EXCEPT ![i].pc = pc ]
    /\ UNCHANGED << now, last, db, child >>
return(i, result) ==
    /\ proc' = [ proc EXCEPT ![i].pc = "done", ![i].result = result ]
    /\ UNCHANGED << now, last, db, child >>
\* Process i goes on at pc with the names it has read.
goto_with(i, pc, names) ==
    /\ proc' = [ proc EXCEPT ![i].pc = pc, ![i].names = names ]
    /\ UNCHANGED << now, last, db, child >>

\* Storage::add_profile: load_profile_names and the test of contains.
storage_check(i) ==
    /\ proc[i].kind = "storage" /\ proc[i].pc = "check"
    /\ LET names == load_profile_names(ccuse) IN
       IF contains(names, proc[i].name) THEN return(i, "AlreadyExists")
       ELSE goto_with(i, "create_dir", names)
    /\ UNCHANGED << ccuse, fs >>

\* add_cmd::add_profile: get_profile(name).is_some().
cmd_check(i) ==
    /\ proc[i].kind = "cmd" /\ proc[i].pc = "check"
    /\ IF get_profile(ccuse, fs, proc[i].name) # None THEN return(i, "AlreadyExists")
       ELSE goto(i, "create_dir")
    /\ UNCHANGED << ccuse, fs >>

\* ensure_profile_settings_dir (both paths).
ensure_dir(i) ==
    /\ proc[i].pc = "create_dir"
    /\ fs' = create_dir_all(fs, proc[i].name)
    /\ goto(i, IF proc[i].kind = "storage" THEN "write_settings" ELSE "write_template")
    /\ UNCHANGED ccuse

\* fs::write of settings.json: an error when the directory is gone.
storage_write_settings(i) ==
    /\ proc[i].kind = "storage" /\ proc[i].pc = "write_settings"
    /\ IF ~fs[proc[i].name].dir
       THEN UNCHANGED fs /\ return(i, "Io")
       ELSE /\ fs' = [ fs EXCEPT ![proc[i].name].file =
                                    Some(to_string_pretty(proc[i].input)) ]
            /\ goto(i, "write_index")
    /\ UNCHANGED ccuse

cmd_write_template(i) ==
    /\ proc[i].kind = "cmd" /\ proc[i].pc = "write_template"
    /\ IF ~fs[proc[i].name].dir
       THEN UNCHANGED fs /\ return(i, "Io")
       ELSE /\ fs' = [ fs EXCEPT ![proc[i].name].file = Some(template) ]
            /\ goto(i, "edit")
    /\ UNCHANGED ccuse

\* The editor saves the user's document; it cannot when the directory is gone.
cmd_edit(i) ==
    /\ proc[i].kind = "cmd" /\ proc[i].pc = "edit"
    /\ IF fs[proc[i].name].dir
       THEN fs' = [ fs EXCEPT ![proc[i].name].file = Some(proc[i].input) ]
       ELSE UNCHANGED fs
    /\ goto(i, "read")
    /\ UNCHANGED ccuse

\* read_to_string and the checks of the content, with their clean-up.
cmd_read(i) ==
    /\ proc[i].kind = "cmd" /\ proc[i].pc = "read"
    /\ LET file == fs[proc[i].name].file
           cleaned == remove_dir_all(fs, proc[i].name)
       IN  IF file = None THEN UNCHANGED fs /\ return(i, "Io")
           ELSE IF file[1] = EmptyText \/ file[1] = template
           THEN fs' = cleaned /\ return(i, "cancelled")
           ELSE IF ~is_json(file[1])
           THEN fs' = cleaned /\ return(i, "ConfigError")
           ELSE IF DOMAIN merged_json(proc[i].name, file[1], now).env = {}
           THEN fs' = cleaned /\ return(i, "ConfigError")
           ELSE UNCHANGED fs /\ goto(i, "load_profiles")
    /\ UNCHANGED ccuse

\* storage.load_profiles(), the names of what it returns, and the push.
cmd_load_profiles(i) ==
    /\ proc[i].kind = "cmd" /\ proc[i].pc = "load_profiles"
    /\ LET loaded == load_profiles(ccuse, fs) IN
       goto_with(i, "write_index", [ k \in 1..Len(loaded) |-> loaded[k].name ])
    /\ UNCHANGED << ccuse, fs >>

\* names.push(name) and fs::write of ccuse.json (both paths).
write_index(i) ==
    /\ proc[i].pc = "write_index"
    /\ ccuse' = Some(Append(proc[i].names, proc[i].name))
    /\ return(i, "ok")
    /\ UNCHANGED fs

NextRace ==
    \/ \E i \in Procs : storage_check(i)
    \/ \E i \in Procs : cmd_check(i)
    \/ \E i \in Procs : ensure_dir(i)
    \/ \E i \in Procs : storage_write_settings(i)
    \/ \E i \in Procs : cmd_write_template(i)
    \/ \E i \in Procs : cmd_edit(i)
    \/ \E i \in Procs : cmd_read(i)
    \/ \E i \in Procs : cmd_load_profiles(i)
    \/ \E i \in Procs : write_index(i)

SpecRace == InitRace /\ [][NextRace]_vars

--------------------------------------------------------------------------
\* Reads of the current state

index == load_profile_names(ccuse)
Get(name) == get_profile(ccuse, fs, name)
List == load_profiles(ccuse, fs)
HasFile(name) == fs[name].file # None
Indexed(name) == contains(index, name)
\* Indexed, and the settings file is missing or does not parse.
Broken(name) == Indexed(name) /\ load_profile_from_file(fs, name) = None

Succeeded(ops) == last.op \in ops /\ last.result = "ok"

--------------------------------------------------------------------------
\* Claims

\* C1: in every reachable state the index holds no name twice.
C1_IndexNamesUnique ==
    \A i, j \in 1..Len(index) : index[i] = index[j] => i = j

\* C2: a merge leaves every indexed profile of source manual in the index,
\* with the contents get returned before.
C2_MergeKeepsManual ==
    [][ \A e \in BOOLEAN, new_profiles \in Fetched :
          update_profiles(e, new_profiles) =>
            \A n \in NameSet :
              (Get(n) # None /\ Get(n)[1].source = Some(Manual)) =>
                /\ contains(load_profile_names(ccuse'), n)
                /\ get_profile(ccuse', fs', n) = Get(n) ]_vars

\* C3: after a successful add, remove, removeAll, rename or merge, a name has
\* a settings file in its subdirectory if and only if it is in the index.
C3_IndexMirrorsFiles ==
    Succeeded({ "add_profile", "add_cmd", "remove_profile", "remove_cmd",
                "remove_all", "rename", "update" }) =>
        \A n \in NameSet : HasFile(n) <=> Indexed(n)

\* C4: a successful add_profile(P) of a name that was not indexed is followed
\* by get(P.name) = P, field by field.
C4_AddThenGet ==
    [][ \A p \in ProfileInputs :
          (add_profile(p) /\ last'.result = "ok") =>
            get_profile(ccuse', fs', p.name) = Some(p) ]_vars

C4_Witness ==
    /\ Succeeded({ "add_profile" })
    /\ Get(last.name) # None
    /\ Get(last.name)[1].env = EnvUrl

\* C5: when ccuse add reports success for n, get(n) returns a profile with
\* name n, the env the user entered, and source manual unless the document
\* gives another.
C5_AddCmdStoresMergedProfile ==
    [][ \A n \in NameSet, d \in UserDocs :
          (add_cmd(n, TRUE, d) /\ last'.result = "ok") =>
            LET got == get_profile(ccuse', fs', n) IN
            /\ got # None
            /\ got[1].name = n
            /\ got[1].env = d.env
            /\ DOMAIN got[1].env # {}
            /\ got[1].source = unwrap_or(get(d, "source"), Some(Manual)) ]_vars

\* C6: a successful add of n, by add_profile or by ccuse add, leaves the index
\* as it was with n appended.
C6_AddAppends ==
    [][ /\ \A p \in ProfileInputs :
             (add_profile(p) /\ last'.result = "ok") =>
               load_profile_names(ccuse') = Append(index, p.name)
        /\ \A n \in NameSet, d \in UserDocs :
             (add_cmd(n, TRUE, d) /\ last'.result = "ok") =>
               load_profile_names(ccuse') = Append(index, n) ]_vars

\* C7: an add of a name that is in the index, by add_profile or by ccuse add,
\* fails with AlreadyExists and changes neither the index nor any file.
C7_AddExistingFails ==
    [][ /\ \A p \in ProfileInputs :
             (Indexed(p.name) /\ add_profile(p)) =>
               last'.result = "AlreadyExists" /\ UNCHANGED << ccuse, fs >>
        /\ \A n \in NameSet, e \in BOOLEAN, d \in UserDocs :
             (Indexed(n) /\ add_cmd(n, e, d)) =>
               last'.result = "AlreadyExists" /\ UNCHANGED << ccuse, fs >> ]_vars

\* C8: every profile get or list returns has a non-empty env.
C8_EnvNeverEmpty ==
    /\ \A n \in NameSet : Get(n) # None => DOMAIN Get(n)[1].env # {}
    /\ \A i \in 1..Len(List) : DOMAIN List[i].env # {}

\* C9: after a successful remove(n), and so after add(n) then remove(n),
\* get(n) is absent, n is not in the index and its subdirectory is gone.
C9_RemoveAfterAdd ==
    Succeeded({ "remove_profile", "remove_cmd" }) =>
        /\ Get(last.name) = None
        /\ ~Indexed(last.name)
        /\ fs[last.name] = NoDir

\* The second operation of a run removes "a b": only an add (either path) of
\* that name can have indexed it, since a merge indexes normalized names.
C9_Witness ==
    /\ now = 2
    /\ Succeeded({ "remove_profile", "remove_cmd" })
    /\ last.name = A_B
    /\ fs[A_B] = NoDir

\* C10: remove(name), by remove_profile or by a confirmed ccuse remove, fails
\* with NotFound and changes nothing when name is not in the index, and
\* otherwise succeeds and rewrites the index without name.
C10_RemoveNotFoundIffNotIndexed ==
    [][ \A n \in NameSet :
          (remove_profile(n) \/ remove_cmd(n, TRUE)) =>
            IF Indexed(n)
            THEN /\ last'.result = "ok"
                 /\ load_profile_names(ccuse') = SelectSeq(index, LAMBDA m : m # n)
            ELSE /\ last'.result = "NotFound"
                 /\ UNCHANGED << ccuse, fs >> ]_vars

\* C11: after a successful rename(old, new), get(old) is absent, old is not
\* in the index, and get(new) is the profile get(old) returned before with
\* name = new (display_name follows the name; every other field is equal).
C11_RenameMoves ==
    [][ \A o \in NameSet, n \in NameSet :
          (rename_profile(o, n) /\ last'.result = "ok") =>
            LET was == Get(o)[1]
                got == get_profile(ccuse', fs', n)
            IN  /\ get_profile(ccuse', fs', o) = None
                /\ ~contains(load_profile_names(ccuse'), o)
                /\ got # None
                /\ got[1].name = n
                /\ \A f \in ProfileFields \ { "name", "display_name" } :
                     got[1][f] = was[f] ]_vars

C13_RenameFailures ==
    [][ \A o \in NameSet, n \in NameSet :
          rename_profile(o, n) =>
            /\ ~Indexed(o) => last'.result = "NotFound"
            /\ (Get(o) # None /\ Indexed(n)) => last'.result = "AlreadyExists"
            /\ last'.result # "ok" => UNCHANGED << ccuse, fs >> ]_vars

\* C14: a removeAll leaves the index empty, list empty and no directory of a
\* name that was indexed; a removeAll directly after a successful removeAll
\* succeeds and changes nothing.
C14_RemoveAllIdempotent ==
    [][ remove_all_profiles(TRUE) =>
          /\ last'.result = "ok"
          /\ load_profile_names(ccuse') = << >>
          /\ load_profiles(ccuse', fs') = << >>
          /\ \A n \in NameSet : Indexed(n) => fs'[n] = NoDir
          /\ Succeeded({ "remove_all" }) => UNCHANGED << ccuse, fs >> ]_vars

\* A second removeAll has run directly after a successful one.
C14_Witness ==
    /\ Succeeded({ "remove_all" })
    /\ last.repeat
    /\ index = << >>
    /\ now = MaxClock

\* C15: update(profile) fails with NotFound and changes nothing when the name
\* is not indexed; when it is indexed, only that name's settings file is
\* written, the index and every other file stay, and get(name) is the profile.
C15_UpdateOverwritesOne ==
    [][ \A p \in ProfileInputs :
          update_profile(p) =>
            IF ~Indexed(p.name)
            THEN last'.result = "NotFound" /\ UNCHANGED << ccuse, fs >>
            ELSE /\ last'.result = "ok"
                 /\ UNCHANGED ccuse
                 /\ \A m \in NameSet \ { p.name } : fs'[m] = fs[m]
                 /\ get_profile(ccuse', fs', p.name) = Some(p) ]_vars

\* An update has overwritten the second of two indexed profiles.
C15_Witness ==
    /\ Succeeded({ "update_profile" })
    /\ Len(index) = 2
    /\ index[2] = last.name
    /\ Get(index[1]) # None
    /\ Get(last.name) # None
    /\ Get(last.name)[1].env = EnvUrl

C17_ListSkipsUnloadable ==
    LET loads == { i \in 1..Len(index) : load_profile_from_file(fs, index[i]) # None }
    IN  /\ Len(List) = Cardinality(loads)
        /\ \A i \in loads :
             List[Cardinality({ j \in loads : j <= i })]
               = load_profile_from_file(fs, index[i])[1]

\* The first indexed name does not load and the second one does: list holds
\* the second.
C17_Witness ==
    /\ Len(index) = 2
    /\ Broken(index[1])
    /\ ~Broken(index[2])
    /\ Len(List) = 1
    /\ List[1].name = index[2]

\* C18: a merge with no database (nothing is fetched), or with a database
\* that yields no candidate, returns without an error and changes neither the
\* index nor any file.
C18_MergeNothingIsNoOp ==
    [][ \A e \in BOOLEAN :
          update_profiles(e, << >>) =>
            /\ UNCHANGED << ccuse, fs >>
            /\ last'.result = "nothing" ]_vars

\* A merge with nothing to merge has run on a store that holds a synced
\* profile, which is still there.
C18_Witness ==
    /\ last.op = "update"
    /\ last.result = "nothing"
    /\ \E n \in NameSet : Get(n) # None /\ Get(n)[1].source = Some(CcSwitch)

\* C19: after a merge, the profile stored for a candidate with raw name r (the
\* last candidate of its normalized name) has name = r with spaces replaced
\* and display_name = r as fetched.
C19_DisplayNameIsRaw ==
    [][ \A new_profiles \in Fetched :
          (update_profiles(TRUE, new_profiles) /\ last'.result = "ok") =>
            \A i \in 1..Len(new_profiles) :
              LET raw == new_profiles[i].display_name[1]
                  stored == get_profile(ccuse', fs', replace(raw))
              IN  (\A j \in (i + 1)..Len(new_profiles) :
                      replace(new_profiles[j].display_name[1]) # replace(raw)) =>
                    /\ stored # None
                    /\ stored[1].name = replace(raw)
                    /\ stored[1].display_name = Some(raw) ]_vars

\* C20: after a merge with candidates none of which has the name (raw or
\* normalized) of an indexed manual profile, the index is the indexed names
\* of the manual profiles, in their order, followed by the normalized
\* candidate names in fetch order, each once at its first occurrence; every
\* candidate's profile has source cc-switch.
C20_MergeIndexOrder ==
    [][ \A new_profiles \in Fetched :
          (update_profiles(TRUE, new_profiles) /\ last'.result = "ok") =>
            LET manual == SelectSeq(index, LAMBDA n :
                            Get(n) # None /\ Get(n)[1].source = Some(Manual))
                raw(i) == new_profiles[i].display_name[1]
                cand == [ i \in 1..Len(new_profiles) |-> replace(raw(i)) ]
                first(x) == CHOOSE i \in 1..Len(cand) :
                              cand[i] = x /\ \A j \in 1..(i - 1) : cand[j] # x
                after == load_profile_names(ccuse')
                m == Len(manual)
            IN  (\A k \in 1..m, i \in 1..Len(cand) :
                    manual[k] # raw(i) /\ manual[k] # cand[i]) =>
                  /\ Len(after) = m + Cardinality({ cand[i] : i \in 1..Len(cand) })
                  /\ \A k \in 1..m : after[k] = manual[k]
                  /\ \A a \in (m + 1)..Len(after) :
                       /\ \E i \in 1..Len(cand) : cand[i] = after[a]
                       /\ \A b \in (a + 1)..Len(after) :
                            /\ after[b] # after[a]
                            /\ first(after[a]) < first(after[b])
                  /\ \A i \in 1..Len(cand) :
                       LET got == get_profile(ccuse', fs', cand[i]) IN
                       got # None /\ got[1].source = Some(CcSwitch) ]_vars

\* C21: after a merge with candidates, a name whose profile had a source
\* other than manual before the merge, and which is not the normalized name
\* of a candidate, is not in the index, and get of it is absence.
C21_MergeDropsOtherSynced ==
    [][ \A new_profiles \in Fetched :
          (/\ last'.op = "update" /\ last'.result = "ok"
           /\ update_profiles(TRUE, new_profiles)) =>
            \A n \in NameSet :
              (/\ Get(n) # None
               /\ Get(n)[1].source # Some(Manual)
               /\ \A i \in 1..Len(new_profiles) :
                    replace(new_profiles[i].display_name[1]) # n) =>
                /\ ~contains(load_profile_names(ccuse'), n)
                /\ get_profile(ccuse', fs', n) = None ]_vars

\* C22: in a merge of one candidate, when a manual profile of the store has
\* the candidate's raw fetched name or its normalized name, the first such
\* profile is replaced and nothing is appended: the index afterwards is the
\* manual names with the normalized name at that position.
C22_MatchRawOrNormalized ==
    [][ \A new_profiles \in Fetched :
          (/\ last'.op = "update" /\ last'.result = "ok"
           /\ Len(new_profiles) = 1
           /\ update_profiles(TRUE, new_profiles)) =>
            LET raw == new_profiles[1].display_name[1]
                manual == SelectSeq(List, LAMBDA p : p.source = Some(Manual))
                hits == { k \in 1..Len(manual) :
                            manual[k].name = raw \/ manual[k].name = replace(raw) }
                after == load_profile_names(ccuse')
            IN  hits # {} =>
                  /\ Len(after) = Len(manual)
                  /\ \A k \in 1..Len(manual) :
                       after[k] = IF k \in hits /\ \A j \in hits : k <= j
                                  THEN replace(raw) ELSE manual[k].name ]_vars

\* C23: a candidate whose normalized name is the name of a manual profile, or
\* of an earlier candidate of the round, takes that entry's place: the index
\* afterwards is the manual names, at their positions, followed by the
\* normalized names no manual profile has; the profile stored under a
\* candidate's normalized name is the last candidate of that name, with
\* source cc-switch, so no manual profile is stored under it.
C23_ReplaceInPlace ==
    [][ \A new_profiles \in Fetched :
          (/\ last'.op = "update" /\ last'.result = "ok"
           /\ update_profiles(TRUE, new_profiles)) =>
            LET manual == SelectSeq(List, LAMBDA p : p.source = Some(Manual))
                cand == [ i \in 1..Len(new_profiles) |->
                            replace(new_profiles[i].display_name[1]) ]
                fresh == { cand[i] : i \in 1..Len(cand) }
                           \ { manual[k].name : k \in 1..Len(manual) }
                after == load_profile_names(ccuse')
            IN  /\ Len(after) = Len(manual) + Cardinality(fresh)
                /\ \A k \in 1..Len(manual) : after[k] = manual[k].name
                /\ \A i \in 1..Len(cand) :
                     (\A j \in (i + 1)..Len(cand) : cand[j] # cand[i]) =>
                       LET got == get_profile(ccuse', fs', cand[i]) IN
                       /\ got # None
                       /\ got[1].source = Some(CcSwitch)
                       /\ got[1].env = new_profiles[i].env
                       /\ got[1].created_at = new_profiles[i].created_at ]_vars

\* C24: a merge of candidates C into a store whose profiles are all manual,
\* followed by a second merge of the same C, leaves the index and every
\* profile as the first merge left them.
C24_MergeRepeatable ==
    [][ \A new_profiles \in Fetched :
          (/\ last'.op = "update" /\ last'.result = "ok"
           /\ \A n \in NameSet : Indexed(n) =>
                Get(n) # None /\ Get(n)[1].source = Some(Manual)
           /\ update_profiles(TRUE, new_profiles)) =>
            LET again == merged_store(ccuse', fs', new_profiles) IN
            /\ load_profile_names(again.ccuse) = load_profile_names(ccuse')
            /\ \A n \in NameSet :
                 get_profile(again.ccuse, again.fs, n) = get_profile(ccuse', fs', n) ]_vars

\* C25: a merge over a table with rows whose settings_config does not parse
\* leaves what a merge over the table without these rows leaves, and returns
\* no error.
C25_UnparsableRowsDropped ==
    [][ (last'.op = "update" /\ db # None /\ update_cmd) =>
          LET parsable == SelectSeq(db[1], LAMBDA r : is_json(r.settings_config))
              parsed == [ i \in 1..Len(parsable) |->
                                parse_provider_config(parsable[i])[1] ]
          IN  IF parsed = << >>
              THEN UNCHANGED << ccuse, fs >> /\ last'.result = "nothing"
              ELSE /\ last'.result = "ok"
                   /\ << ccuse', fs' >> =
                        << merged_store(ccuse, fs, parsed).ccuse,
                           merged_store(ccuse, fs, parsed).fs >> ]_vars

\* A merge has run over a table whose first row does not parse and whose
\* second row does: the second row's profile is stored.
C25_Witness ==
    /\ Succeeded({ "update" })
    /\ db # None
    /\ Len(db[1]) = 2
    /\ ~is_json(db[1][1].settings_config)
    /\ is_json(db[1][2].settings_config)
    /\ Get(replace(db[1][2].name)) # None
    /\ Get(replace(db[1][2].name))[1].source = Some(CcSwitch)

\* C30: every name in the index is a path segment: not empty, not ".", and
\* without a path separator.
C30_IndexNamesArePathSegments ==
    \A i \in 1..Len(index) :
      /\ index[i] # << >>
      /\ index[i] # << "." >>
      /\ \A j \in 1..Len(index[i]) : index[i][j] # "/"

\* C26: an add, update, remove or rename that returns an error, a failed
\* filesystem call included, leaves the index and every directory and
\* settings file as they were.
C26_FailuresAreAtomic ==
    [][ (/\ last'.op \in { "add_profile", "update_profile", "remove_profile", "rename" }
         /\ last'.result # "ok") =>
          UNCHANGED << ccuse, fs >> ]_vars

\* C27: when two adds of one name run side by side and both return success,
\* the index holds the name at most once.
C27_RaceIndexesOnce ==
    (/\ proc[1].result = "ok" /\ proc[2].result = "ok"
     /\ proc[1].name = proc[2].name) =>
       Cardinality({ k \in 1..Len(index) : index[k] = proc[1].name }) <= 1

\* C28: an update, a rename or a merge leaves created_at as get returned it
\* before, for every name that get returns a profile for before and after
\* (for a rename: the new name after, the old name before).
C28_CreatedAtImmutable ==
    [][ (/\ last'.op \in { "update_profile", "rename", "update" }
         /\ last'.result = "ok") =>
          \A n \in NameSet :
            LET before == IF last'.op = "rename" /\ n = last'.name2
                          THEN Get(last'.name) ELSE Get(n)
                after == get_profile(ccuse', fs', n)
            IN  (before # None /\ after # None) =>
                  after[1].created_at = before[1].created_at ]_vars

\* C29: an update, a rename or a merge that rewrites the settings file of a
\* profile stores the time of the write as updated_at; the clock being
\* strictly increasing, the value is greater than the one stored before.
C29_UpdatedAtRefreshed ==
    [][ (/\ last'.op \in { "update_profile", "rename", "update" }
         /\ last'.result = "ok") =>
          \A n \in NameSet :
            LET before == IF last'.op = "rename" /\ n = last'.name2
                          THEN Get(last'.name) ELSE Get(n)
                after == get_profile(ccuse', fs', n)
                written == CASE last'.op = "update_profile" -> n = last'.name
                             [] last'.op = "rename" -> n = last'.name2
                             [] OTHER -> contains(load_profile_names(ccuse'), n)
            IN  (written /\ before # None /\ after # None) =>
                  after[1].updated_at > before[1].updated_at ]_vars

\* C31: a remove or a rename leaves the directory and settings file of every
\* indexed name other than its arguments as they were, the index file stays
\* readable, and get of every such name returns what it returned before.
C31_EffectsConfined ==
    [][ last'.op \in { "remove_profile", "remove_cmd", "rename" } =>
          /\ (ccuse' = None) <=> (ccuse = None)
          /\ \A n \in PathSet :
               (Indexed(n) /\ n # last'.name /\ n # last'.name2) =>
                 /\ fs'[n] = fs[n]
                 /\ get_profile(ccuse', fs', n) = Get(n) ]_vars

\* C32: a use returns success only if the executable was spawned and exited
\* with success, does not return success when the child exits with a
\* failure status, and every key of the profile's env has the profile's
\* value in the child's environment.
C32_LauncherPropagatesOutcome ==
    last.op = "use" =>
      /\ last.result = "ok" => (child # None /\ child[1].code = 0)
      /\ (child # None /\ child[1].code # 0) => last.result # "ok"
      /\ child # None =>
           \A k \in DOMAIN Get(last.name)[1].env :
             /\ k \in DOMAIN child[1].env
             /\ child[1].env[k] = Get(last.name)[1].env[k]

\* C33: after a merge of a non-empty candidate list, a name that was indexed
\* and whose settings file was missing or did not parse is not indexed,
\* unless one of the candidates carries that name.
C33_MergeDropsUnloadable ==
    [][ \A new_profiles \in Fetched :
          (/\ last'.op = "update" /\ last'.result = "ok"
           /\ update_profiles(TRUE, new_profiles)) =>
            \A n \in NameSet :
              (/\ Broken(n)
               /\ \A i \in 1..Len(new_profiles) : new_profiles[i].name # n) =>
                ~contains(load_profile_names(ccuse'), n) ]_vars

\* C34: for every indexed name whose settings file loads, the name field in
\* the file is the name it is indexed under.
C34_NameFieldIsIndexName ==
    \A n \in NameSet : Get(n) # None => Get(n)[1].name = n

====
